---- MODULE Spec2Model ----
(***************************************************************************)
(* A model of the Quantam pipeline engine (src/src/core.ts):               *)
(*   - the batch scheduler  Quantam.runMany        (specification Spec)    *)
(*   - the pipeline runner and the step executor, Quantam.run and          *)
(*     Quantam.executeSingleStep / executeParallelSteps                    *)
(*                                                (specification SpecRun)  *)
(*   - the builder methods step, parallel, name, retry, stepTimeout,       *)
(*     withSignal and timeout over a heap of shared Step objects           *)
(*                                                (specification SpecBuild)*)
(* SpecGroup is SpecRun's machine on flows with a parallel step, SpecLive  *)
(* is Spec's on the worker-pool branch with the progress of the event loop.*)
(* Time is the clock of the event loop: a timer or a step function's       *)
(* completion is an event with a due time, and events fire in time order.  *)
(* Promises are modelled by their settlement events and by the FIFO queue  *)
(* of reactions (microtasks) a settlement schedules.                       *)
(***************************************************************************)
EXTENDS Integers, Sequences, FiniteSets, TLC

VARIABLES
    this,        \* the flow runMany/run is called on: [steps, timeoutMs, abortSignal]
    inputs,      \* runMany's inputs, a 0-based array
    options,     \* runMany's options: [concurrency]
    rmPc,        \* where the runMany call is: "idle", "awaiting", "returned", "thrown"
    rmValue,     \* the array runMany's promise is fulfilled with
    rmError,     \* the reason runMany's promise is rejected with
    index,       \* the shared cursor of the bounded branch
    results,     \* the results array of the bounded branch
    workers,     \* the worker() calls of the bounded branch
    invocations, \* the this.run(...) calls made so far, in call order
    pall,        \* the Promise.all(...) runMany waits for
    microtasks,  \* promise reactions scheduled and not yet run, oldest first
    failLog,     \* invocations that failed, in the order they failed
    runOptions,  \* run's options: [signal]
    runInput,    \* run's input
    aborted,     \* the AbortSignals that are aborted
    now,         \* the clock, in ms
    runPc,       \* where the run call is: "idle", "awaiting", "resume", "returned", "thrown"
    result,      \* run's local variable result
    runError,    \* the reason run's promise is rejected with
    context,     \* run's ExecutionContext object
    execs,       \* the executeSingleStep calls of the current step, by member
    awaited,     \* the promise run awaits for the current step
    calls,       \* the step function invocations made so far, in call order
    sleepLog,    \* the backoff sleeps begun so far, in order
    heap,        \* the Step objects allocated by the builder, by reference
    flows        \* the Quantam objects created so far: [steps, timeoutMs, abortSignal],
                 \* steps an array of references into heap

batchVars == <<inputs, options, rmPc, rmValue, rmError, index, results,
               workers, invocations, pall, microtasks, failLog>>

runVars == <<runOptions, runInput, aborted, now, runPc, result, runError, context,
             execs, awaited, calls, sleepLog>>

buildVars == <<heap, flows>>

vars == <<this, batchVars, runVars, buildVars>>

(***************************************************************************)
(* Bounds of the model.                                                    *)
(***************************************************************************)
MaxInputs == 3

(***************************************************************************)
(* Values.  undefined and numbers are kept apart: ?? and || treat them     *)
(* differently.                                                            *)
(***************************************************************************)
Undefined == [def |-> FALSE, v |-> 0]

Some(n) == [def |-> TRUE, v |-> n]

\* a value flowing through a pipeline: a number, or the array a parallel step yields
Scalar(n) == [isArr |-> FALSE, items |-> <<n>>]

ArrayOf(s) == [isArr |-> TRUE, items |-> s]

\* a hole of new Array(n)
Hole == [isArr |-> FALSE, items |-> << >>]

RECURSIVE SumSeq(_)
SumSeq(s) == IF s = << >> THEN 0 ELSE Head(s) + SumSeq(Tail(s))

(***************************************************************************)
(* Step functions the flows of the model are built from (the AsyncFn       *)
(* arguments of step()): n => n + 1 and n => n * 2 of the tests.           *)
(***************************************************************************)
Fns == {"inc", "dbl"}

Apply(fn, x) ==
    IF fn = "inc" THEN Scalar(SumSeq(x.items) + 1)
    ELSE Scalar(SumSeq(x.items) * 2)

(***************************************************************************)
(* Flow definitions.  A step is the Step interface of core.ts; fields the  *)
(* builder never set are undefined.                                        *)
(***************************************************************************)
NoName == [def |-> FALSE, v |-> ""]

SingleStep(fn) ==
    [type |-> "single", fn |-> fn, fns |-> << >>, retries |-> Undefined,
     retryDelay |-> Undefined, timeout |-> Undefined, name |-> NoName]

ParallelStep(fns) ==
    [type |-> "parallel", fn |-> "", fns |-> fns, retries |-> Undefined,
     retryDelay |-> Undefined, timeout |-> Undefined, name |-> NoName]

\* 0-based arrays
ArrLen(a) == Cardinality(DOMAIN a)

EmptyArray == [i \in {} |-> Hole]

Min(a, b) == IF a <= b THEN a ELSE b

\* what run(input) is fulfilled with when every step function is applied once, in
\* order, and none fails: the value the promise of an invocation settles to
RECURSIVE RunOutput(_, _)
RunOutput(steps, x) ==
    IF steps = << >> THEN x
    ELSE LET step == Head(steps)
         IN  IF step.type = "single"
             THEN RunOutput(Tail(steps), Apply(step.fn, x))
             ELSE RunOutput(Tail(steps),
                      ArrayOf([j \in 1..Len(step.fns) |->
                                  SumSeq(Apply(step.fns[j], x).items)]))

(***************************************************************************)
(* runMany (core.ts 100-131)                                               *)
(***************************************************************************)
\* line 102
Concurrency ==
    IF options.concurrency.def THEN options.concurrency.v ELSE ArrLen(inputs)

\* a test that lets a concurrency of 0 or less into the worker-pool branch
BoundedBelowN == ~(Concurrency >= ArrLen(inputs))

\* line 107, negated: the worker-pool branch is taken
Bounded == ~(Concurrency <= 0 \/ Concurrency >= ArrLen(inputs))

\* a pool one worker too large
WorkerCountOneMore == Min(Concurrency + 1, ArrLen(inputs))

\* line 124
WorkerCount == Min(Concurrency, ArrLen(inputs))

\* a reaction of Promise.all to the settlement of its element k
AllReaction(k, ok, val, reason) ==
    [type |-> "all", k |-> k, ok |-> ok, val |-> val, reason |-> reason]

\* the continuation of a worker's await (line 119)
WorkerReaction(w, ok, val, reason) ==
    [type |-> "worker", k |-> w, ok |-> ok, val |-> val, reason |-> reason]

\* the continuation of runMany's own await / return of Promise.all
RunManyReaction ==
    [type |-> "runMany", k |-> 0, ok |-> TRUE, val |-> Hole, reason |-> 0]

\* a claim that moves the cursor on by two
ClaimIndexSkipsOne(st) == [st EXCEPT !.index = @ + 2]

\* a claim that reads the cursor and does not advance it
ClaimIndexNoAdvance(st) == st

\* line 115: const currentIndex = index++
ClaimIndex(st) == [st EXCEPT !.index = @ + 1]

\* a store in completion order: into the first hole
StoreResultInFirstHole(res, currentIndex, val) ==
    IF \E i \in DOMAIN res : res[i] = Hole
    THEN [res EXCEPT ![CHOOSE i \in DOMAIN res :
                         res[i] = Hole /\ \A k \in DOMAIN res : res[k] = Hole => i <= k]
                      = val]
    ELSE res

\* line 119: results[currentIndex] = <the awaited value>
StoreResult(res, currentIndex, val) == [res EXCEPT ![currentIndex] = val]

\* a worker that swallows the failure of a run and ends normally
WorkerSwallowsRejection(w, reason) == AllReaction(w, TRUE, Hole, 0)

\* line 119: the await throws, nothing catches it, the worker's promise rejects
WorkerRejection(w, reason) == AllReaction(w, FALSE, Hole, reason)

\* a worker that leaves its loop once a run of the batch has failed
WorkerLoopStopsAfterFailure(st, w) ==
    LET currentIndex == st.index
        st1 == ClaimIndex(st)
    IN  IF currentIndex >= ArrLen(inputs) \/ failLog # << >>
        THEN [st1 EXCEPT
                !.workers = (w :> [st |-> "resolved", currentIndex |-> currentIndex,
                                   awaiting |-> 0]) @@ @,
                !.microtasks = IF st.all
                               THEN Append(@, AllReaction(w, TRUE, Hole, 0))
                               ELSE @]
        ELSE [st1 EXCEPT
                !.workers = (w :> [st |-> "awaiting", currentIndex |-> currentIndex,
                                   awaiting |-> Len(st.invocations) + 1]) @@ @,
                !.invocations = Append(@, [idx |-> currentIndex, st |-> "inflight",
                                           by |-> w, late |-> rmPc = "thrown"])]

\* lines 114-119: a worker from the head of its loop to its next await, or to
\* the break that ends it.  st carries index, workers, invocations, microtasks;
\* late records that the run is called after runMany has thrown.
WorkerLoop(st, w) ==
    LET currentIndex == st.index
        st1 == ClaimIndex(st)
    IN  IF currentIndex >= ArrLen(inputs)
        THEN [st1 EXCEPT
                !.workers = (w :> [st |-> "resolved", currentIndex |-> currentIndex,
                                   awaiting |-> 0]) @@ @,
                !.microtasks = IF st.all
                               THEN Append(@, AllReaction(w, TRUE, Hole, 0))
                               ELSE @]
        ELSE [st1 EXCEPT
                !.workers = (w :> [st |-> "awaiting", currentIndex |-> currentIndex,
                                   awaiting |-> Len(st.invocations) + 1]) @@ @,
                !.invocations = Append(@, [idx |-> currentIndex, st |-> "inflight",
                                           by |-> w, late |-> rmPc = "thrown"])]

\* lines 125-127: workers.push(worker()) for i = 0 .. workerCount - 1
RECURSIVE SpawnWorkers(_, _, _)
SpawnWorkers(st, i, workerCount) ==
    IF i >= workerCount THEN st
    ELSE SpawnWorkers(WorkerLoop(st, i), i + 1, workerCount)

\* the reactions Promise.all(workers) schedules for workers settled before it is called
RECURSIVE SettledReactions(_, _, _)
SettledReactions(ws, i, n) ==
    IF i >= n THEN << >>
    ELSE (IF ws[i].st = "resolved" THEN <<AllReaction(i, TRUE, Hole, 0)>> ELSE << >>)
         \o SettledReactions(ws, i + 1, n)

NoPromise == [st |-> "none", remaining |-> 0, values |-> EmptyArray, reason |-> 0]

PendingAll(n) ==
    [st |-> "pending", remaining |-> n, values |-> [i \in 0..(n - 1) |-> Hole],
     reason |-> 0]

\* runMany up to its first await (or its return, for no inputs)
RunManyCall ==
    /\ rmPc = "idle"
    /\ LET N == ArrLen(inputs)
       IN  IF N = 0
           THEN /\ rmPc' = "returned"
                /\ rmValue' = EmptyArray
                /\ UNCHANGED <<index, results, workers, invocations, pall, microtasks>>
           ELSE IF ~Bounded
           THEN \* line 108: every run is called, then Promise.all
                /\ invocations' = [k \in 1..N |->
                                      [idx |-> k - 1, st |-> "inflight", by |-> 0,
                                       late |-> FALSE]]
                /\ pall' = PendingAll(N)
                /\ rmPc' = "awaiting"
                /\ UNCHANGED <<rmValue, index, results, workers, microtasks>>
           ELSE \* lines 111-129
                LET st0 == [index |-> 0, workers |-> EmptyArray,
                            invocations |-> << >>, microtasks |-> << >>, all |-> FALSE]
                    st1 == SpawnWorkers(st0, 0, WorkerCount)
                IN  /\ results' = [i \in 0..(N - 1) |-> Hole]
                    /\ index' = st1.index
                    /\ workers' = st1.workers
                    /\ invocations' = st1.invocations
                    /\ microtasks' = SettledReactions(st1.workers, 0, WorkerCount)
                    /\ pall' = PendingAll(WorkerCount)
                    /\ rmPc' = "awaiting"
                    /\ UNCHANGED rmValue
    /\ UNCHANGED <<this, inputs, options, rmError, failLog, runVars, buildVars>>

\* the promise of invocation k of this.run settles: fulfilled with the flow's
\* output for its input, or rejected (a step failed); the awaiting party's
\* reaction is scheduled
RunSettle(k, ok) ==
    /\ k \in DOMAIN invocations
    /\ invocations[k].st = "inflight"
    /\ LET inv == invocations[k]
           val == IF ok THEN RunOutput(this.steps, Scalar(inputs[inv.idx])) ELSE Hole
       IN  /\ invocations' = [invocations EXCEPT ![k].st = IF ok THEN "ok" ELSE "err"]
           /\ failLog' = IF ok THEN failLog ELSE Append(failLog, inv.idx)
           /\ microtasks' = Append(microtasks,
                                IF Bounded
                                THEN WorkerReaction(inv.by, ok, val, inv.idx)
                                ELSE AllReaction(inv.idx, ok, val, inv.idx))
    /\ UNCHANGED <<this, inputs, options, rmPc, rmValue, rmError, index, results,
                   workers, pall, runVars, buildVars>>

\* line 119 resumed: store the result and go round the loop, or let the
\* rejection end the worker
WorkerResume ==
    /\ microtasks # << >>
    /\ Head(microtasks).type = "worker"
    /\ LET t == Head(microtasks)
           w == t.k
       IN  IF t.ok
           THEN LET st0 == [index |-> index, workers |-> workers,
                            invocations |-> invocations,
                            microtasks |-> Tail(microtasks), all |-> TRUE]
                    st1 == WorkerLoop(st0, w)
                IN  /\ results' = StoreResult(results, workers[w].currentIndex, t.val)
                    /\ index' = st1.index
                    /\ workers' = st1.workers
                    /\ invocations' = st1.invocations
                    /\ microtasks' = st1.microtasks
           ELSE /\ workers' = [workers EXCEPT ![w].st = "rejected"]
                /\ microtasks' = Append(Tail(microtasks),
                                        WorkerRejection(w, t.reason))
                /\ UNCHANGED <<results, index, invocations>>
    /\ UNCHANGED <<this, inputs, options, rmPc, rmValue, rmError, pall, failLog,
                   runVars, buildVars>>

\* a Promise.all that waits for every element before it rejects
PromiseAllWaitsForAll(p, t) ==
    LET q == [p EXCEPT !.values[t.k] = IF t.ok THEN t.val ELSE @,
                       !.remaining = @ - 1,
                       !.reason = IF ~t.ok /\ @.kind = "none" THEN t.reason ELSE @]
    IN  IF q.remaining = 0
        THEN [q EXCEPT !.st = IF q.reason.kind = "none" THEN "fulfilled"
                              ELSE "rejected"]
        ELSE q

\* a Promise.all that collects the values in the order they arrive
PromiseAllInArrivalOrder(p, t) ==
    IF t.ok
    THEN LET q == [p EXCEPT !.values[ArrLen(p.values) - p.remaining] = t.val,
                            !.remaining = @ - 1]
         IN  IF p.st = "pending" /\ q.remaining = 0
             THEN [q EXCEPT !.st = "fulfilled"]
             ELSE q
    ELSE IF p.st = "pending"
         THEN [p EXCEPT !.st = "rejected", !.reason = t.reason]
         ELSE p

\* Promise.all: the first rejection rejects it, the last fulfilment fulfils it
PromiseAllReact(p, t) ==
    IF t.ok
    THEN LET q == [p EXCEPT !.values[t.k] = t.val, !.remaining = @ - 1]
         IN  IF p.st = "pending" /\ q.remaining = 0
             THEN [q EXCEPT !.st = "fulfilled"]
             ELSE q
    ELSE IF p.st = "pending"
         THEN [p EXCEPT !.st = "rejected", !.reason = t.reason]
         ELSE p

PromiseAllStep ==
    /\ microtasks # << >>
    /\ Head(microtasks).type = "all"
    /\ pall' = PromiseAllReact(pall, Head(microtasks))
    /\ microtasks' = IF pall.st = "pending" /\ pall'.st # "pending"
                     THEN Append(Tail(microtasks), RunManyReaction)
                     ELSE Tail(microtasks)
    /\ UNCHANGED <<this, inputs, options, rmPc, rmValue, rmError, index, results,
                   workers, invocations, failLog, runVars, buildVars>>

\* line 108 / lines 129-130: runMany settles as Promise.all did
RunManyResume ==
    /\ microtasks # << >>
    /\ Head(microtasks).type = "runMany"
    /\ rmPc = "awaiting"
    /\ microtasks' = Tail(microtasks)
    /\ IF pall.st = "fulfilled"
       THEN /\ rmPc' = "returned"
            /\ rmValue' = IF Bounded THEN results ELSE pall.values
            /\ UNCHANGED rmError
       ELSE /\ rmPc' = "thrown"
            /\ rmError' = pall.reason
            /\ UNCHANGED rmValue
    /\ UNCHANGED <<this, inputs, options, index, results, workers, invocations,
                   pall, failLog, runVars, buildVars>>

(***************************************************************************)
(* Errors.  kind names the message: "StepFailure" is whatever the step     *)
(* function threw, "Timeout" is `Timeout after ${ms}ms` (line 244),        *)
(* "Aborted" is 'Pipeline aborted' (238), "SleepAborted" is 'Sleep         *)
(* aborted' (255), "ExecFailed" is 'Step execution failed' (218).          *)
(* attempt and member tell which attempt of which member raised it;        *)
(* mentions holds the step labels (" 'name'") the message contains as      *)
(* thrown, suffixed those whose whole suffix " (at step 'name')" it        *)
(* contains as thrown; suffix is the label appended by line 212.           *)
(***************************************************************************)
Err(kind, ms, attempt, member) ==
    [kind |-> kind, ms |-> ms, attempt |-> attempt, member |-> member,
     mentions |-> {}, suffixed |-> {}, suffix |-> ""]

\* what a step function throws: msg tells whether its message contains
\* nothing of the step's name, the quoted name, or the whole suffix
StepFailure(call, stepName) ==
    [Err("StepFailure", 0, call.attempt, call.member) EXCEPT
        !.mentions = IF call.msg # "plain" /\ stepName.def THEN {stepName.v} ELSE {},
        !.suffixed = IF call.msg = "suffix" /\ stepName.def THEN {stepName.v} ELSE {}]

NoError == Err("none", 0, 0, 0)

\* x is truthy, for an optional number / an optional string
Truthy(x) == x.def /\ x.v # 0

TruthyName(x) == x.def /\ x.v # ""

\* x || dflt, for an optional number
OrElse(x, dflt) == IF Truthy(x) THEN x.v ELSE dflt

\* 1 << n on 32-bit integers
ShiftLeftOne(n) ==
    IF n % 32 = 31 THEN (-2147483647) - 1 ELSE 2 ^ (n % 32)

\* line 203
Backoff(retryDelay, attempt) == retryDelay * ShiftLeftOne(attempt)

\* stepTimeout || this.timeoutMs: a step timeout of 0 falls back to the flow's
EffectiveTimeoutOr(stepTimeout) ==
    IF Truthy(stepTimeout) THEN stepTimeout ELSE this.timeoutMs

\* line 190: stepTimeout ?? this.timeoutMs
EffectiveTimeout(stepTimeout) ==
    IF stepTimeout.def THEN stepTimeout ELSE this.timeoutMs

\* a loop that goes round once more than the retries allow
AttemptsLeftOneMore(ex) == ex.attempt <= ex.retries

\* lines 184 and 202: after attempt ex.attempt another attempt is due
AttemptsLeft(ex) == ex.attempt < ex.retries

\* line 134: options?.signal || this.abortSignal
Signal == IF Truthy(runOptions.signal) THEN runOptions.signal ELSE this.abortSignal

\* a check that looks at the flow's own signal only
IsAbortedOfFlow(ab) == this.abortSignal.def /\ this.abortSignal.v \in ab

\* lines 236-240: the condition under which checkAborted throws
IsAborted(ab) == Signal.def /\ Signal.v \in ab

\* lines 210-213: the last error, labelled with the step's name
Labelled(err, stepName) ==
    IF TruthyName(stepName) /\ stepName.v \notin err.mentions /\ err.suffix # stepName.v
    THEN [err EXCEPT !.suffix = stepName.v]
    ELSE err

(***************************************************************************)
(* The step executor.  The operators below work on a record st of run's    *)
(* state: context, execs, awaited, calls, sleepLog, with st.now the time   *)
(* and st.ab the aborted signals.                                          *)
(***************************************************************************)
\* the settlement of member j's executeSingleStep promise reaches the promise
\* run awaits: the executor's own promise for a single step, Promise.all of
\* the members' (line 233) for a parallel step
Settle(st, j, ok, val, err) ==
    LET ex == [st.execs[j] EXCEPT !.pc = IF ok THEN "fulfilled" ELSE "rejected",
                                  !.lastError = IF ok THEN @ ELSE err]
    IN  [st EXCEPT
            !.execs[j] = ex,
            !.awaited = PromiseAllReact(@, AllReaction(j, ok, val, err))]

\* lines 199-218: the catch block for the error of attempt ex.attempt, and
\* what follows the loop when no attempt is left
Catch(st, j, err) ==
    LET ex == st.execs[j]
    IN  IF AttemptsLeft(ex)
        THEN LET delay == Backoff(ex.retryDelay, ex.attempt)
                 st1 == [st EXCEPT
                            !.execs[j].lastError = err,
                            !.sleepLog = Append(@, [step |-> ex.step, member |-> j,
                                                    attempt |-> ex.attempt,
                                                    delay |-> delay, at |-> st.now])]
             IN  IF IsAborted(st.ab)
                 THEN \* lines 257-260: sleep rejects at once, out of the catch block
                      Settle(st1, j, FALSE, Hole, Err("SleepAborted", 0, ex.attempt, j))
                 ELSE [st1 EXCEPT !.execs[j].pc = "sleeping",
                                  !.execs[j].wakeAt = st.now + delay]
        ELSE Settle(st, j, FALSE, Hole, Labelled(err, st.context.stepName))

\* lines 185-196: attempt ex.attempt up to its await.  ch is what the step
\* function will do: how long it takes and whether it throws.
BeginAttempt(st, j, ch) ==
    LET ex == st.execs[j]
    IN  IF IsAborted(st.ab)
        THEN Catch(st, j, Err("Aborted", 0, ex.attempt, j))
        ELSE LET ctx == [st.context EXCEPT !.retryCount = ex.attempt]
                 eff == EffectiveTimeout(ex.stepTimeout)
                 call == [step |-> ex.step, member |-> j, fn |-> ex.fn,
                          attempt |-> ex.attempt, seen |-> ctx.retryCount,
                          input |-> ex.input, start |-> st.now,
                          end |-> st.now + ch.d, throws |-> ch.throws,
                          msg |-> ch.msg]
             IN  [st EXCEPT
                    !.context = ctx,
                    !.calls = Append(@, call),
                    !.execs[j] = [ex EXCEPT
                                    !.pc = "awaiting",
                                    !.call = Len(st.calls) + 1,
                                    !.timerAt = IF Truthy(eff)
                                                THEN Some(st.now + eff.v)
                                                ELSE Undefined]]

\* lines 174-184: executeSingleStep called for member j
ExecStart(st, j, fn, input, retries, retryDelay, stepTimeout, ch) ==
    LET ex == [pc |-> "start", step |-> st.context.stepIndex, fn |-> fn,
               input |-> input, retries |-> retries, retryDelay |-> retryDelay,
               stepTimeout |-> stepTimeout, attempt |-> 0, lastError |-> NoError,
               call |-> 0, timerAt |-> Undefined, wakeAt |-> 0]
        st1 == [st EXCEPT !.execs = (j :> ex) @@ @]
    IN  IF 0 <= retries
        THEN BeginAttempt(st1, j, ch)
        ELSE \* the loop body never runs: lines 217-218
             Settle(st1, j, FALSE, Hole, Err("ExecFailed", 0, 0, j))

\* lines 229-231: fns.map(fn => this.executeSingleStep(...)), members j .. m - 1
RECURSIVE ExecStartAll(_, _, _, _, _)
ExecStartAll(st, step, input, j, chs) ==
    IF j >= Len(step.fns) THEN st
    ELSE ExecStartAll(
             ExecStart(st, j, step.fns[j + 1], input, OrElse(step.retries, 0),
                       OrElse(step.retryDelay, 100), step.timeout, chs[j]),
             step, input, j + 1, chs)

(***************************************************************************)
(* run (core.ts 133-172)                                                   *)
(***************************************************************************)
\* a runner whose await does not wait: the promise it awaits is fulfilled
\* from the start
PendingOneFulfilled == [PendingAll(1) EXCEPT !.reason = NoError, !.st = "fulfilled"]

PendingOne == [PendingAll(1) EXCEPT !.reason = NoError]

\* a runner that hands every step the input of the run
StepInputOfRun(st) == runInput

\* lines 153 and 162: the input of a step is the variable result
StepInput(st) == st.result

\* lines 142-168: from the head of the for loop at step i to the await of
\* that step, to the return after the last step, or to checkAborted's throw
RECURSIVE RunLoop(_, _, _)
RunLoop(st, i, chs) ==
    IF i >= Len(this.steps)
    THEN [st EXCEPT !.runPc = "returned"]
    ELSE IF IsAborted(st.ab)
    THEN [st EXCEPT !.runPc = "thrown", !.runError = Err("Aborted", 0, 0, 0)]
    ELSE LET step == this.steps[i + 1]
             st1 == [st EXCEPT
                        !.context = [stepIndex |-> i, stepName |-> step.name,
                                     retryCount |-> 0],
                        !.execs = EmptyArray]
         IN  IF step.type = "single" /\ step.fn # ""
             THEN LET st2 == ExecStart([st1 EXCEPT !.awaited = PendingOne], 0,
                                       step.fn, StepInput(st), OrElse(step.retries, 0),
                                       OrElse(step.retryDelay, 100), step.timeout,
                                       chs[0])
                  IN  [st2 EXCEPT !.runPc = IF st2.awaited.st = "pending"
                                            THEN "awaiting" ELSE "resume"]
             ELSE IF step.type = "parallel"
             THEN LET m == Len(step.fns)
                      p == [PendingAll(m) EXCEPT
                               !.reason = NoError,
                               !.st = IF m = 0 THEN "fulfilled" ELSE "pending"]
                      st2 == ExecStartAll([st1 EXCEPT !.awaited = p], step,
                                          StepInput(st), 0, chs)
                  IN  [st2 EXCEPT !.runPc = IF st2.awaited.st = "pending"
                                            THEN "awaiting" ELSE "resume"]
             ELSE RunLoop(st1, i + 1, chs)

\* how many step functions RunLoop(st, i, _) invokes
RECURSIVE InvokeCount(_)
InvokeCount(i) ==
    IF i >= Len(this.steps) \/ IsAborted(aborted) THEN 0
    ELSE LET step == this.steps[i + 1]
         IN  IF step.type = "single" /\ step.fn # "" THEN 1
             ELSE IF step.type = "parallel" THEN Len(step.fns)
             ELSE InvokeCount(i + 1)

\* what a step function invocation may do
Durations == {2, 4, 8}

\* the messages of the errors a step function throws: one that has nothing
\* of the step's name, one that quotes the name ("cannot load 'a'"), one
\* that has the suffix already ("failed (at step 'a')")
Messages == {"plain", "label", "suffix"}

\* a step function that takes the short time and returns or throws, or one
\* that takes a longer time and returns; messages that have the name of the
\* step are thrown in the flows with a named step
Choices ==
    {ch \in [d : Durations, throws : BOOLEAN, msg : Messages] :
        /\ ch.throws => \A d \in Durations : ch.d <= d
        /\ ~ch.throws => ch.msg = "plain"
        /\ ch.msg # "plain" => \E k \in DOMAIN this.steps : this.steps[k].name.def}

ChoiceArrays(n) == [0..(n - 1) -> Choices]

RunState(t) ==
    [now |-> t, ab |-> aborted, runPc |-> runPc, result |-> result,
     runError |-> runError, context |-> context, execs |-> execs,
     awaited |-> awaited, calls |-> calls, sleepLog |-> sleepLog]

Become(st) ==
    /\ now' = st.now
    /\ runPc' = st.runPc
    /\ result' = st.result
    /\ runError' = st.runError
    /\ context' = st.context
    /\ execs' = st.execs
    /\ awaited' = st.awaited
    /\ calls' = st.calls
    /\ sleepLog' = st.sleepLog

\* lines 133-140, then the loop
RunCall ==
    /\ runPc = "idle"
    /\ \E chs \in ChoiceArrays(InvokeCount(0)) :
          Become(RunLoop([RunState(now) EXCEPT
                             !.result = runInput,
                             !.context = [stepIndex |-> 0, stepName |-> NoName,
                                          retryCount |-> 0]],
                         0, chs))
    /\ UNCHANGED <<this, batchVars, buildVars, runOptions, runInput, aborted>>

\* the value of the promise run awaited: line 151 or line 160
AwaitedValue ==
    IF this.steps[context.stepIndex + 1].type = "single"
    THEN awaited.values[0]
    ELSE ArrayOf([j \in 1..ArrLen(awaited.values) |->
                     SumSeq(awaited.values[j - 1].items)])

\* the await of line 151 / 160 resumed: assign result and go round the loop,
\* or let the rejection end the run
RunResume ==
    /\ runPc = "resume"
    /\ IF awaited.st = "fulfilled"
       THEN \E chs \in ChoiceArrays(InvokeCount(context.stepIndex + 1)) :
               Become(RunLoop([RunState(now) EXCEPT !.result = AwaitedValue],
                              context.stepIndex + 1, chs))
       ELSE Become([RunState(now) EXCEPT !.runPc = "thrown",
                                         !.runError = awaited.reason])
    /\ UNCHANGED <<this, batchVars, buildVars, runOptions, runInput, aborted>>

\* when member j's pending event is due
EventTime(ex) ==
    IF ex.pc = "sleeping" THEN ex.wakeAt
    ELSE IF ex.timerAt.def THEN Min(calls[ex.call].end, ex.timerAt.v)
    ELSE calls[ex.call].end

Waiting(j) == execs[j].pc \in {"awaiting", "sleeping"}

\* events fire in time order, and after the reactions already scheduled
Due(j) ==
    /\ j \in DOMAIN execs
    /\ Waiting(j)
    /\ runPc # "resume"
    /\ \A k \in DOMAIN execs : Waiting(k) => EventTime(execs[j]) <= EventTime(execs[k])

\* after a settlement, run's continuation is scheduled if this settled its promise
Scheduled(st) ==
    IF st.runPc = "awaiting" /\ st.awaited.st # "pending"
    THEN [st EXCEPT !.runPc = "resume"]
    ELSE st

\* lines 191-198: the await of attempt ex.attempt settles, by the step
\* function's promise or by the timer of createTimeout
AttemptSettles(j, byTimer) ==
    /\ Due(j)
    /\ execs[j].pc = "awaiting"
    /\ LET ex == execs[j]
           call == calls[ex.call]
           st == RunState(EventTime(ex))
       IN  IF byTimer
           THEN /\ ex.timerAt.def
                /\ ex.timerAt.v <= call.end
                /\ Become(Scheduled(Catch(st, j,
                       Err("Timeout", EffectiveTimeout(ex.stepTimeout).v,
                           ex.attempt, j))))
           ELSE /\ ex.timerAt.def => call.end <= ex.timerAt.v
                /\ IF call.throws
                   THEN Become(Scheduled(Catch(st, j,
                            StepFailure(call, context.stepName))))
                   ELSE Become(Scheduled(Settle(st, j, TRUE,
                            Apply(ex.fn, ex.input), NoError)))
    /\ UNCHANGED <<this, batchVars, buildVars, runOptions, runInput, aborted>>

\* line 204 resumed: the backoff sleep is over, the next attempt begins
SleepEnds(j) ==
    /\ Due(j)
    /\ execs[j].pc = "sleeping"
    /\ \E ch \in Choices :
          LET st == RunState(execs[j].wakeAt)
          IN  Become(Scheduled(BeginAttempt(
                  [st EXCEPT !.execs[j].attempt = @ + 1], j, ch)))
    /\ UNCHANGED <<this, batchVars, buildVars, runOptions, runInput, aborted>>

\* an abort no sleep listens to
AbortSleepsUnheard(st, js) == st

\* lines 253-256: onAbort of every sleep listening to the signal
RECURSIVE AbortSleeps(_, _)
AbortSleeps(st, js) ==
    IF js = {} THEN st
    ELSE LET j == CHOOSE x \in js : \A y \in js : x <= y
         IN  AbortSleeps(
                 IF st.execs[j].pc = "sleeping"
                 THEN Settle(st, j, FALSE, Hole,
                             Err("SleepAborted", 0, st.execs[j].attempt, j))
                 ELSE st,
                 js \ {j})

\* controller.abort() on signal s
Abort(s) ==
    /\ s \notin aborted
    /\ (this.abortSignal = Some(s) \/ runOptions.signal = Some(s))
    /\ aborted' = aborted \cup {s}
    /\ LET st == [RunState(now) EXCEPT !.ab = aborted \cup {s}]
       IN  Become(Scheduled(IF IsAborted(st.ab)
                            THEN AbortSleeps(st, DOMAIN execs)
                            ELSE st))
    /\ UNCHANGED <<this, batchVars, buildVars, runOptions, runInput>>

(***************************************************************************)
(* The builder (core.ts 18-98, 267-269).  A Quantam object holds an array  *)
(* of references to Step objects; [...this.steps] copies the array, not    *)
(* the objects it refers to.                                               *)
(***************************************************************************)
\* the model holds at most MaxFlows Quantam objects
MaxFlows == 4

\* a builder call on flow f can be made
CanCall(f) == f \in DOMAIN flows /\ Len(flows) < MaxFlows

\* lines 19-21, 267-269: quantam()
NewQuantam == [steps |-> << >>, timeoutMs |-> Undefined, abortSignal |-> Undefined]

\* lines 24-27 and alike: new Quantam() with steps = [...this.steps] and the
\* two flow-level fields copied
CopyOf(f) ==
    [steps |-> flows[f].steps, timeoutMs |-> flows[f].timeoutMs,
     abortSignal |-> flows[f].abortSignal]

\* the reference of the next object allocated
NewRef == Len(heap) + 1

\* the last element of newFlow.steps (lines 48, 62, 77)
LastStep(newFlow) == newFlow.steps[Len(newFlow.steps)]

\* lines 23-30
StepOp(f, fn) ==
    /\ CanCall(f)
    /\ heap' = Append(heap, SingleStep(fn))
    /\ flows' = Append(flows, [CopyOf(f) EXCEPT !.steps = Append(@, NewRef)])
    /\ UNCHANGED <<this, batchVars, runVars>>

\* lines 32-39
ParallelOp(f, fns) ==
    /\ CanCall(f)
    /\ heap' = Append(heap, ParallelStep(fns))
    /\ flows' = Append(flows, [CopyOf(f) EXCEPT !.steps = Append(@, NewRef)])
    /\ UNCHANGED <<this, batchVars, runVars>>

\* lines 41-53
NameOp(f, label) ==
    /\ CanCall(f)
    /\ LET newFlow == CopyOf(f)
       IN  /\ heap' = IF Len(newFlow.steps) > 0
                      THEN [heap EXCEPT ![LastStep(newFlow)].name =
                                           [def |-> TRUE, v |-> label]]
                      ELSE heap
           /\ flows' = Append(flows, newFlow)
    /\ UNCHANGED <<this, batchVars, runVars>>

\* lines 55-68; delayMs is undefined when the argument is left out
RetryOp(f, count, delayMs) ==
    /\ CanCall(f)
    /\ LET newFlow == CopyOf(f)
           delay == IF delayMs.def THEN delayMs.v ELSE 100
       IN  /\ heap' = IF Len(newFlow.steps) > 0
                      THEN [heap EXCEPT ![LastStep(newFlow)].retries = Some(count),
                                        ![LastStep(newFlow)].retryDelay = Some(delay)]
                      ELSE heap
           /\ flows' = Append(flows, newFlow)
    /\ UNCHANGED <<this, batchVars, runVars>>

\* lines 70-82
StepTimeoutOp(f, ms) ==
    /\ CanCall(f)
    /\ LET newFlow == CopyOf(f)
       IN  /\ heap' = IF Len(newFlow.steps) > 0
                      THEN [heap EXCEPT ![LastStep(newFlow)].timeout = Some(ms)]
                      ELSE heap
           /\ flows' = Append(flows, newFlow)
    /\ UNCHANGED <<this, batchVars, runVars>>

\* lines 84-90
WithSignalOp(f, signal) ==
    /\ CanCall(f)
    /\ flows' = Append(flows, [CopyOf(f) EXCEPT !.abortSignal = Some(signal)])
    /\ UNCHANGED <<heap, this, batchVars, runVars>>

\* lines 92-98
TimeoutOp(f, ms) ==
    /\ CanCall(f)
    /\ flows' = Append(flows, [CopyOf(f) EXCEPT !.timeoutMs = Some(ms)])
    /\ UNCHANGED <<heap, this, batchVars, runVars>>

\* what a flow is to run and runMany: its steps' fields and its two defaults
FlowValue(f) ==
    [steps |-> [k \in 1..Len(flows[f].steps) |-> heap[flows[f].steps[k]]],
     timeoutMs |-> flows[f].timeoutMs, abortSignal |-> flows[f].abortSignal]

(***************************************************************************)
(* The batch specification: one runMany call on a flow of single steps,    *)
(* for every choice of inputs and of the concurrency option.               *)
(***************************************************************************)
InputValues == {1, 2}

Arrays(n) == [0..(n - 1) -> InputValues]

BatchFlows ==
    { [steps |-> <<SingleStep("inc")>>, timeoutMs |-> Undefined,
       abortSignal |-> Undefined],
      [steps |-> <<SingleStep("inc"), SingleStep("dbl")>>, timeoutMs |-> Undefined,
       abortSignal |-> Undefined] }

ConcurrencyOptions ==
    {Undefined} \cup {Some(c) : c \in (-1)..(MaxInputs + 1)}

RunIdle ==
    /\ runOptions = [signal |-> Undefined]
    /\ runInput = Hole
    /\ aborted = {}
    /\ now = 0
    /\ runPc = "idle"
    /\ result = Hole
    /\ runError = NoError
    /\ context = [stepIndex |-> 0, stepName |-> NoName, retryCount |-> 0]
    /\ execs = EmptyArray
    /\ awaited = [NoPromise EXCEPT !.reason = NoError]
    /\ calls = << >>
    /\ sleepLog = << >>

BatchIdle ==
    /\ inputs = EmptyArray
    /\ options = [concurrency |-> Undefined]
    /\ rmPc = "idle"
    /\ rmValue = EmptyArray
    /\ rmError = 0
    /\ index = 0
    /\ results = EmptyArray
    /\ workers = EmptyArray
    /\ invocations = << >>
    /\ pall = NoPromise
    /\ microtasks = << >>
    /\ failLog = << >>

BuildIdle ==
    /\ heap = << >>
    /\ flows = <<NewQuantam>>

Init ==
    /\ this \in BatchFlows
    /\ BuildIdle
    /\ inputs \in UNION {Arrays(n) : n \in 0..MaxInputs}
    /\ options \in [concurrency : ConcurrencyOptions]
    /\ rmPc = "idle"
    /\ rmValue = EmptyArray
    /\ rmError = 0
    /\ index = 0
    /\ results = EmptyArray
    /\ workers = EmptyArray
    /\ invocations = << >>
    /\ pall = NoPromise
    /\ microtasks = << >>
    /\ failLog = << >>
    /\ RunIdle

Next ==
    \/ RunManyCall
    \/ \E k \in 1..MaxInputs, ok \in BOOLEAN : RunSettle(k, ok)
    \/ WorkerResume
    \/ PromiseAllStep
    \/ RunManyResume

Spec == Init /\ [][Next]_vars

(***************************************************************************)
(* The batch specification with the progress the event loop gives: a       *)
(* runMany call in the worker-pool branch is made, every run invocation    *)
(* completes, and every scheduled promise reaction runs.                   *)
(***************************************************************************)
InitLive ==
    /\ Init
    /\ this = [steps |-> <<SingleStep("inc"), SingleStep("dbl")>>,
               timeoutMs |-> Undefined, abortSignal |-> Undefined]
    /\ \A i \in DOMAIN inputs : inputs[i] = (i % 2) + 1
    /\ Bounded

Fairness ==
    /\ WF_vars(RunManyCall)
    /\ \A k \in 1..MaxInputs : WF_vars(\E ok \in BOOLEAN : RunSettle(k, ok))
    /\ WF_vars(WorkerResume)
    /\ WF_vars(PromiseAllStep)
    /\ WF_vars(RunManyResume)

SpecLive == InitLive /\ [][Next]_vars /\ Fairness

(***************************************************************************)
(* The run specification: one run call, for every flow of RunFlows, every  *)
(* behaviour of the step functions and every moment of cancellation.       *)
(***************************************************************************)
MaxSteps == 2

MaxRetries == 2

RetryDelays == {0, 1, 100}

\* arguments of stepTimeout(ms) and of timeout(ms), or no such call: with
\* the Durations, a step timeout every step function outlasts and a flow
\* timeout only the slow ones outlast
StepTimeouts == {Undefined, Some(0), Some(1)}

FlowTimeouts == {Undefined, Some(0), Some(3)}

Names == {NoName, [def |-> TRUE, v |-> "a"]}

RetryPolicies ==
    {[retries |-> Undefined, retryDelay |-> Undefined]}
    \cup {[retries |-> Some(r), retryDelay |-> Some(d)] :
             r \in 0..MaxRetries, d \in RetryDelays}

\* a step after .retry(...), .stepTimeout(...), .name(...)
Configured(step, pol, to, name) ==
    [step EXCEPT !.retries = pol.retries, !.retryDelay = pol.retryDelay,
                 !.timeout = to, !.name = name]

RECURSIVE PlainSteps(_)
PlainSteps(n) ==
    IF n = 0 THEN {<< >>}
    ELSE LET shorter == PlainSteps(n - 1)
         IN  shorter \cup {Append(ss, SingleStep(fn)) :
                              ss \in {x \in shorter : Len(x) = n - 1}, fn \in Fns}

\* flows of plain steps; flows whose first step has a retry policy and a
\* timeout, alone or followed by a plain step; flows of one named step
RunSteps ==
    PlainSteps(MaxSteps)
    \cup {<<Configured(SingleStep("inc"), pol, to, NoName)>> \o rest :
             pol \in RetryPolicies, to \in StepTimeouts,
             rest \in {<< >>, <<SingleStep("dbl")>>}}
    \cup {<<Configured(SingleStep("inc"), pol, Undefined, name)>> :
             pol \in RetryPolicies, name \in Names}

\* no signal, the flow's signal, or the signal of run's options over the flow's
Signals ==
    {<<Undefined, Undefined>>, <<Some(1), Undefined>>, <<Some(1), Some(2)>>}

RunFlows ==
    {[steps |-> ss, timeoutMs |-> to, abortSignal |-> sig[1]] :
        ss \in RunSteps, to \in FlowTimeouts, sig \in Signals}

InitRun ==
    /\ this \in RunFlows
    /\ BatchIdle
    /\ BuildIdle
    /\ runOptions \in {[signal |-> sig[2]] : sig \in {x \in Signals : x[1] = this.abortSignal}}
    /\ runInput \in {Scalar(v) : v \in IF this.steps \in PlainSteps(MaxSteps)
                                        THEN InputValues ELSE {1}}
    /\ aborted = {}
    /\ now = 0
    /\ runPc = "idle"
    /\ result = Hole
    /\ runError = NoError
    /\ context = [stepIndex |-> 0, stepName |-> NoName, retryCount |-> 0]
    /\ execs = EmptyArray
    /\ awaited = [NoPromise EXCEPT !.reason = NoError]
    /\ calls = << >>
    /\ sleepLog = << >>

NextRun ==
    \/ RunCall
    \/ RunResume
    \/ \E j \in 0..1, byTimer \in BOOLEAN : AttemptSettles(j, byTimer)
    \/ \E j \in 0..1 : SleepEnds(j)
    \/ \E s \in {1, 2} : Abort(s)

SpecRun == InitRun /\ [][NextRun]_vars

(***************************************************************************)
(* The group specification: one run call on a flow with a parallel step,   *)
(* alone, after a single step or before one.                               *)
(***************************************************************************)
GroupFns == {<< >>, <<"dbl">>, <<"inc", "dbl">>}

GroupPolicies ==
    {[retries |-> Undefined, retryDelay |-> Undefined]}
    \cup {[retries |-> Some(r), retryDelay |-> Some(1)] : r \in {1, MaxRetries}}

\* no step timeout, or one only the slowest step function outlasts
GroupTimeouts == {Undefined, Some(5)}

\* a group that retries more than once is the only step of its flow
GroupSteps ==
    {ss \in {pre \o <<Configured(ParallelStep(fns), pol, to, NoName)>> \o post :
                pre \in {<< >>, <<SingleStep("inc")>>}, fns \in GroupFns,
                pol \in GroupPolicies, to \in GroupTimeouts,
                post \in {<< >>, <<SingleStep("dbl")>>}} :
        /\ Len(ss) <= MaxSteps
        /\ \A k \in DOMAIN ss :
              (ss[k].retries.def /\ ss[k].retries.v > 1) => Len(ss) = 1}

\* the flows with a signal are those whose group has no retry policy
GroupFlows ==
    {f \in {[steps |-> ss, timeoutMs |-> Undefined, abortSignal |-> sig] :
               ss \in GroupSteps, sig \in {Undefined, Some(1)}} :
        f.abortSignal.def =>
            \A k \in DOMAIN f.steps :
                f.steps[k].type = "parallel" => ~f.steps[k].retries.def}

InitGroup ==
    /\ this \in GroupFlows
    /\ BatchIdle
    /\ BuildIdle
    /\ runOptions = [signal |-> Undefined]
    /\ runInput = Scalar(1)
    /\ aborted = {}
    /\ now = 0
    /\ runPc = "idle"
    /\ result = Hole
    /\ runError = NoError
    /\ context = [stepIndex |-> 0, stepName |-> NoName, retryCount |-> 0]
    /\ execs = EmptyArray
    /\ awaited = [NoPromise EXCEPT !.reason = NoError]
    /\ calls = << >>
    /\ sleepLog = << >>

SpecGroup == InitGroup /\ [][NextRun]_vars

(***************************************************************************)
(* The builder specification: every chain of builder calls, on every flow  *)
(* created so far, up to MaxFlows Quantam objects.                         *)
(***************************************************************************)
Labels == {"a", "b"}

RetryCounts == {1, 2}

DelayArgs == {Undefined, Some(0)}

TimeoutArgs == {0, 3}

InitBuild ==
    /\ this = NewQuantam
    /\ BatchIdle
    /\ RunIdle
    /\ BuildIdle

NextBuild ==
    \/ \E f \in 1..MaxFlows, fn \in Fns : StepOp(f, fn)
    \/ \E f \in 1..MaxFlows : ParallelOp(f, <<"inc", "dbl">>)
    \/ \E f \in 1..MaxFlows, label \in Labels : NameOp(f, label)
    \/ \E f \in 1..MaxFlows, count \in RetryCounts, delayMs \in DelayArgs :
          RetryOp(f, count, delayMs)
    \/ \E f \in 1..MaxFlows, ms \in TimeoutArgs : StepTimeoutOp(f, ms)
    \/ \E f \in 1..MaxFlows : WithSignalOp(f, 1)
    \/ \E f \in 1..MaxFlows, ms \in TimeoutArgs : TimeoutOp(f, ms)

SpecBuild == InitBuild /\ [][NextBuild]_vars

(***************************************************************************)
(* Properties of the batch scheduler, checked under Spec.                  *)
(***************************************************************************)
\* the run invocations started and not yet finished
InFlight == {k \in DOMAIN invocations : invocations[k].st = "inflight"}

\* C1: in a runMany call with 0 < C < N, at every instant, also after an
\* invocation has failed, at most C run invocations are in flight.
C1_AtMostCInFlight == Bounded => Cardinality(InFlight) <= Concurrency

\* the pool is at work after a failure: one worker has ended on a failed run,
\* every other worker is busy on an index it claimed after its first
C1_Witness ==
    /\ Bounded
    /\ Concurrency >= 2
    /\ failLog # << >>
    /\ index > Concurrency
    /\ Cardinality(InFlight) = Concurrency - 1

\* the indices for which run has been called
ClaimedOnce ==
    /\ \A k \in DOMAIN invocations :
          invocations[k].idx >= 0 /\ invocations[k].idx < ArrLen(inputs)
    /\ \A k1, k2 \in DOMAIN invocations :
          k1 # k2 => invocations[k1].idx # invocations[k2].idx

\* C2: in bounded runMany the cursor only increases, no index is run by two
\* workers (or twice), and no index outside [0, N) is run.
C2_CursorClaims ==
    /\ [][Bounded => index' >= index]_vars
    /\ [](Bounded => ClaimedOnce)

\* every index has been claimed, by workers that went round their loop, and
\* the cursor has been read past N by each worker
C2_Witness ==
    /\ Bounded
    /\ Len(invocations) = ArrLen(inputs)
    /\ index = ArrLen(inputs) + Concurrency
    /\ \E k \in DOMAIN invocations : invocations[k].by # invocations[k].idx

\* C3: when runMany returns, for every concurrency setting and completion
\* order, the array has length N and its element i is the output of run for
\* inputs[i].
C3_ResultsAligned ==
    rmPc = "returned" =>
        /\ DOMAIN rmValue = DOMAIN inputs
        /\ \A i \in DOMAIN inputs :
              rmValue[i] = RunOutput(this.steps, Scalar(inputs[i]))

\* a bounded call has returned an array of different outputs; the run of
\* input 1 finished before the run of input 0, so that the worker of input 1
\* took the third input
C3_Witness ==
    /\ rmPc = "returned"
    /\ Bounded
    /\ Concurrency = 2
    /\ ArrLen(inputs) = 3
    /\ rmValue[0] # rmValue[1]
    /\ invocations[3].by = 1

\* C4: if a run invocation fails, runMany fails with the failure of the
\* invocation that failed first in time, and never returns an array; what
\* the other invocations do afterwards does not change that.
C4_FirstFailureIsOutcome ==
    /\ rmPc = "returned" => failLog = << >>
    /\ rmPc = "thrown" => failLog # << >> /\ rmError = Head(failLog)

\* runMany has failed with the first failure, a later invocation has failed
\* too and a third one has succeeded since
C4_Witness ==
    /\ rmPc = "thrown"
    /\ Len(failLog) >= 2
    /\ rmError = failLog[1]
    /\ rmError # failLog[2]
    /\ \E k \in DOMAIN invocations : invocations[k].st = "ok"

(***************************************************************************)
(* Properties of the pipeline runner and the step executor, checked under  *)
(* SpecRun.                                                                *)
(***************************************************************************)
SingleOnly == \A k \in DOMAIN this.steps : this.steps[k].type = "single"

\* no attempt after a first one has been made: no step function failed or
\* timed out with a retry left (and the run goes on only if none did at all)
NoRetryYet == \A k \in DOMAIN calls : calls[k].attempt = 0

\* C5: in a flow of single steps where nothing fails, times out, is retried
\* or cancelled, the steps are invoked in index order, once each, step i+1
\* on the output of step i, and run returns fk(...f1(x)).
C5_SequentialComposition ==
    SingleOnly /\ NoRetryYet =>
        /\ Len(calls) <= Len(this.steps)
        /\ \A k \in DOMAIN calls :
              /\ calls[k].step = k - 1
              /\ calls[k].fn = this.steps[k].fn
              /\ calls[k].input = IF k = 1 THEN runInput
                                  ELSE Apply(calls[k - 1].fn, calls[k - 1].input)
        /\ runPc = "returned" =>
              /\ Len(calls) = Len(this.steps)
              /\ result = RunOutput(this.steps, runInput)

\* the flow [n => n + 1, n => n * 2] run on 1 has returned 4
C5_Witness ==
    /\ runPc = "returned"
    /\ NoRetryYet
    /\ Len(this.steps) = 2
    /\ this.steps[1].fn = "inc"
    /\ this.steps[2].fn = "dbl"
    /\ Len(calls) = 2
    /\ runInput = Scalar(1)
    /\ result = Scalar(4)

\* the invocations of the function of step s, in order
StepCalls(s) ==
    LET OfStep(c) == c.step = s
    IN  SelectSeq(calls, OfStep)

\* C6: the function of a single step with retry(r, d) is invoked at most
\* r + 1 times in a run, attempt k observing retryCount = k; when attempt k
\* succeeds it has been invoked exactly k + 1 times and is not invoked again.
C6_RetryCount ==
    /\ \A n, m \in DOMAIN calls : n < m => calls[n].step <= calls[m].step
    /\ \A s \in 0..(Len(this.steps) - 1) :
          this.steps[s + 1].type = "single" =>
              LET cs == StepCalls(s)
              IN  /\ Len(cs) <= OrElse(this.steps[s + 1].retries, 0) + 1
                  /\ \A n \in DOMAIN cs : cs[n].attempt = n - 1 /\ cs[n].seen = n - 1
                  /\ (s = context.stepIndex /\ 0 \in DOMAIN execs
                        /\ execs[0].pc = "fulfilled") =>
                        /\ Len(cs) = execs[0].attempt + 1
                        /\ ~cs[Len(cs)].throws

\* a step with retry(2, d) has failed on attempt 0 and succeeded on attempt
\* 1, seeing retryCount = 1, and the run has returned
C6_Witness ==
    /\ runPc = "returned"
    /\ Len(this.steps) = 1
    /\ this.steps[1].retries = Some(2)
    /\ Len(calls) = 2
    /\ calls[1].throws
    /\ calls[2].seen = 1
    /\ execs[0].pc = "fulfilled"

\* C7: for a step with retry(r, retryDelayMs), retryDelayMs = 0 included,
\* the backoff wait after failed attempt i is retryDelayMs * 2^i, and the
\* waits of a step do not decrease.
C7_BackoffIsDelayTimesPowerOfTwo ==
    /\ \A n \in DOMAIN sleepLog :
          LET e == sleepLog[n]
              step == this.steps[e.step + 1]
          IN  step.retryDelay.def => e.delay = step.retryDelay.v * (2 ^ e.attempt)
    /\ \A n, m \in DOMAIN sleepLog :
          (n < m /\ sleepLog[n].step = sleepLog[m].step
                 /\ sleepLog[n].member = sleepLog[m].member)
              => sleepLog[n].delay <= sleepLog[m].delay

\* the effective timeout of step s, from the flow
TimeoutOfStep(s) ==
    IF this.steps[s + 1].timeout.def THEN this.steps[s + 1].timeout
    ELSE this.timeoutMs

\* an attempt of member j, raced against a timer of `eff` when `timed`:
\* the timer is set for eff after the invocation; the attempt does not
\* succeed when the function takes longer; when the function takes longer on
\* the last attempt, the step and the run fail with Timeout(eff)
RacedAgainst(j, timed, eff) ==
    LET ex == execs[j]
        c == calls[ex.call]
    IN  ex.call > 0 =>
          /\ ex.pc = "awaiting" =>
                ex.timerAt = IF timed THEN Some(c.start + eff) ELSE Undefined
          /\ (timed /\ ex.pc = "fulfilled") => c.end - c.start <= eff
          /\ (timed /\ ex.pc = "rejected" /\ c.end - c.start > eff
                /\ ex.lastError.kind \in {"StepFailure", "Timeout"}) =>
                /\ ex.lastError.kind = "Timeout"
                /\ ex.lastError.ms = eff
                /\ ex.lastError.attempt = ex.attempt
                /\ ex.attempt = ex.retries
                /\ runPc = "thrown" => runError = ex.lastError

\* C8 as amended: the effective timeout of a step is its stepTimeout value
\* whenever one has been set, 0 included, and else the flow's timeout value;
\* every attempt of a step whose effective timeout is not 0 is raced against
\* a timer of it, fails with Timeout when its body takes longer, and fails
\* the run with that Timeout when no retry remains; with an effective
\* timeout of 0 (or none) no timer is set.
C8_NonZeroTimeoutRaced ==
    \A j \in DOMAIN execs :
        LET eff == TimeoutOfStep(execs[j].step)
        IN  RacedAgainst(j, eff.def /\ eff.v # 0, eff.v)

\* a step with stepTimeout(1) in a flow with timeout(3): its only attempt,
\* taking 2, has failed the run with Timeout(1)
C8_Witness ==
    /\ runPc = "thrown"
    /\ runError.kind = "Timeout"
    /\ runError.ms = 1
    /\ this.timeoutMs = Some(3)
    /\ this.steps[1].timeout = Some(1)
    /\ calls[Len(calls)].end - calls[Len(calls)].start = 2

\* C8: every attempt of a step is raced against a timer of the step's
\* effective timeout (its stepTimeout value whenever set, else the flow's
\* timeout value), fails with Timeout when its body takes longer, and fails
\* the run with that Timeout when no retry remains.
C8_EveryTimeoutRaced ==
    \A j \in DOMAIN execs :
        LET eff == TimeoutOfStep(execs[j].step)
        IN  RacedAgainst(j, eff.def, eff.v)

\* C9: a flow with timeout(T) enforces T on the whole pipeline: a run that
\* takes longer than T in total does not return.
C9_FlowTimeoutBoundsTheRun ==
    (/\ Truthy(this.timeoutMs)
     /\ \A k \in DOMAIN this.steps : ~this.steps[k].timeout.def
     /\ runPc = "returned")
        => now <= this.timeoutMs.v

(***************************************************************************)
(* Properties of the builder, checked under SpecBuild.                     *)
(***************************************************************************)
\* C10: no builder call changes a flow that exists already: its steps, their
\* name, retries, retryDelay and timeout, its default timeout and signal.
C10_BuilderLeavesFlowsUnchanged ==
    [][\A f \in DOMAIN flows : FlowValue(f)' = FlowValue(f)]_vars

(***************************************************************************)
(* Cancellation, checked under SpecRun.                                    *)
(***************************************************************************)
\* the cancellation token of the run is set: the signal of run's options, or
\* else the flow's, is aborted
TokenSet ==
    LET sig == IF runOptions.signal.def THEN runOptions.signal ELSE this.abortSignal
    IN  sig.def /\ sig.v \in aborted

\* member j's attempt is in progress
InProgress(j) == j \in DOMAIN execs /\ execs[j].pc = "awaiting"

\* C11: once the token of a run is set no step function is invoked any more;
\* the run fails with Cancelled (Aborted, or the aborted backoff sleep) at the
\* next poll point it reaches, before a step or before an attempt; an attempt
\* in progress when the token is set is not interrupted.
C11_NoStartAfterCancel ==
    /\ [][TokenSet' => calls' = calls]_vars
    /\ [][(TokenSet /\ runPc = "resume" /\ awaited.st = "fulfilled"
              /\ context.stepIndex + 1 < Len(this.steps) /\ runPc' # runPc)
            => (runPc' = "thrown" /\ runError'.kind = "Aborted")]_vars
    /\ [](TokenSet => \A j \in DOMAIN execs : execs[j].pc # "sleeping")
    /\ [][\A j \in DOMAIN execs :
            (TokenSet /\ InProgress(j) /\ ~InProgress(j)'
                /\ execs'[j].pc = "rejected" /\ execs[j].attempt < execs[j].retries)
              => execs'[j].lastError.kind = "SleepAborted"]_vars
    /\ [][(~TokenSet /\ TokenSet')
            => \A j \in DOMAIN execs : InProgress(j) => execs'[j] = execs[j]]_vars

\* the token was set while the first of two steps was running: that step ran
\* to its end, the second step was never started and the run failed with
\* 'Pipeline aborted'
C11_Witness ==
    /\ TokenSet
    /\ runPc = "thrown"
    /\ runError.kind = "Aborted"
    /\ Len(this.steps) = 2
    /\ Len(calls) = 1
    /\ execs[0].pc = "fulfilled"

(***************************************************************************)
(* Properties of parallel steps, checked under SpecGroup.                  *)
(***************************************************************************)
\* the output of the steps before step s, applied once each to run's input
InputOfStep(s) == RunOutput(SubSeq(this.steps, 1, s), runInput)

\* the array of the members' results for the input of step s
GroupOutput(s) ==
    ArrayOf([j \in 1..Len(this.steps[s + 1].fns) |->
                SumSeq(Apply(this.steps[s + 1].fns[j], InputOfStep(s)).items)])

IsGroup(s) == s + 1 \in DOMAIN this.steps /\ this.steps[s + 1].type = "parallel"

\* C12: a parallel step of m functions invokes every member with the output
\* of the previous step and, when all members succeed, yields the m-length
\* array whose element j is member j's result, in whatever order they finish.
C12_GroupFanOut ==
    /\ \A k \in DOMAIN calls :
          IsGroup(calls[k].step) =>
              /\ calls[k].input = InputOfStep(calls[k].step)
              /\ calls[k].fn = this.steps[calls[k].step + 1].fns[calls[k].member + 1]
    /\ (IsGroup(context.stepIndex) /\ runPc \in {"awaiting", "resume"}) =>
          \A j \in 0..(Len(this.steps[context.stepIndex + 1].fns) - 1) :
              \E k \in DOMAIN calls :
                  calls[k].step = context.stepIndex /\ calls[k].member = j
    /\ (IsGroup(context.stepIndex) /\ awaited.st = "fulfilled"
           /\ runPc \in {"resume", "returned"}) =>
          /\ DOMAIN awaited.values = 0..(Len(this.steps[context.stepIndex + 1].fns) - 1)
          /\ \A j \in DOMAIN awaited.values :
                awaited.values[j] = Apply(this.steps[context.stepIndex + 1].fns[j + 1],
                                          InputOfStep(context.stepIndex))
    /\ (runPc = "returned" /\ IsGroup(Len(this.steps) - 1)) =>
          result = GroupOutput(Len(this.steps) - 1)
    /\ \A k \in DOMAIN calls :
          (calls[k].step > 0 /\ IsGroup(calls[k].step - 1)) =>
              calls[k].input = GroupOutput(calls[k].step - 1)

\* the group [n => n + 1, n => n * 2] after the step n => n + 1, run on 1:
\* the second member finished first, and the run returned [3, 4]
C12_Witness ==
    /\ runPc = "returned"
    /\ Len(this.steps) = 2
    /\ IsGroup(1)
    /\ result = ArrayOf(<<3, 4>>)
    /\ Len(calls) = 3
    /\ \E k1, k2 \in DOMAIN calls :
          /\ calls[k1].member = 0 /\ ~calls[k1].throws
          /\ calls[k2].member = 1 /\ ~calls[k2].throws
          /\ calls[k2].end < calls[k1].end

(***************************************************************************)
(* More properties of the batch scheduler, checked under Spec.             *)
(***************************************************************************)
\* the concurrency option is absent, <= 0 or >= N
Degenerate ==
    \/ ~options.concurrency.def
    \/ options.concurrency.v <= 0
    \/ options.concurrency.v >= ArrLen(inputs)

\* C13: runMany on no inputs returns an empty array and starts no run; on N
\* > 0 inputs with concurrency absent, <= 0 or >= N it starts exactly N runs,
\* one per input, all before any of them completes, and its outcome is that
\* of Promise.all over them: their outputs in input order, or the first
\* failure.
C13_DegenerateIsPromiseAll ==
    /\ [](ArrLen(inputs) = 0 =>
             /\ invocations = << >>
             /\ rmPc \in {"idle", "returned"}
             /\ rmPc = "returned" => rmValue = EmptyArray)
    /\ []((ArrLen(inputs) > 0 /\ Degenerate /\ rmPc # "idle") =>
             /\ Len(invocations) = ArrLen(inputs)
             /\ \A k \in DOMAIN invocations : invocations[k].idx = k - 1
             /\ rmPc = "returned" =>
                   /\ \A k \in DOMAIN invocations : invocations[k].st = "ok"
                   /\ DOMAIN rmValue = DOMAIN inputs
                   /\ \A i \in DOMAIN inputs :
                         rmValue[i] = RunOutput(this.steps, Scalar(inputs[i]))
             /\ rmPc = "thrown" => (failLog # << >> /\ rmError = failLog[1]))
    /\ [][(Degenerate /\ Len(invocations') # Len(invocations)) =>
             /\ invocations = << >>
             /\ Len(invocations') = ArrLen(inputs)
             /\ \A k \in DOMAIN invocations' : invocations'[k].st = "inflight"]_vars

\* runMany on three inputs with concurrency 0 has returned the three outputs
C13_Witness ==
    /\ ArrLen(inputs) = 3
    /\ options.concurrency = Some(0)
    /\ rmPc = "returned"
    /\ Len(invocations) = 3
    /\ rmValue[0] # rmValue[2]

(***************************************************************************)
(* The failure a step surfaces, checked under SpecRun.                     *)
(***************************************************************************)
\* how many times the message of err has the suffix of label
SuffixCount(err, label) ==
    (IF label \in err.suffixed THEN 1 ELSE 0) + (IF err.suffix = label THEN 1 ELSE 0)

\* member j's retries are exhausted: its last attempt failed and the step
\* has failed with it
Exhausted(j) ==
    /\ j \in DOMAIN execs
    /\ execs[j].pc = "rejected"
    /\ execs[j].lastError.kind \in {"StepFailure", "Timeout"}
    /\ execs[j].attempt = execs[j].retries

\* C14: when the retries of a named step are exhausted, run fails with the
\* failure of the final attempt, and the message has the suffix
\* (at step '<name>') exactly once: appended when the message did not have
\* that suffix, not appended when it had.
C14_SuffixExactlyOnce ==
    (SingleOnly /\ Exhausted(0) /\ context.stepName.def) =>
        /\ execs[0].lastError.attempt = execs[0].retries
        /\ SuffixCount(execs[0].lastError, context.stepName.v) = 1
        /\ runPc = "thrown" => runError = execs[0].lastError

(***************************************************************************)
(* The context of the members of a parallel step, checked under SpecGroup. *)
(***************************************************************************)
\* C15: in a parallel step whose members retry, at every instant of member
\* j's attempt number a the retryCount member j sees in its context is a,
\* whatever attempts the other members have made.
C15_OwnRetryCount ==
    IsGroup(context.stepIndex) =>
        \A j \in DOMAIN execs :
            execs[j].pc = "awaiting" => context.retryCount = execs[j].attempt

(***************************************************************************)
(* The order of the steps in time, checked under SpecRun.                  *)
(***************************************************************************)
\* invocation k is running at time t
RunningAt(k, t) == calls[k].start <= t /\ t < calls[k].end

\* invocation k was abandoned: the timer of its attempt fired while it was
\* running, and it went on running unobserved
Abandoned(k) ==
    LET eff == TimeoutOfStep(calls[k].step)
    IN  eff.def /\ eff.v # 0 /\ calls[k].end - calls[k].start > eff.v

\* the invocation that produced the output of step s is over when step s + 1
\* is invoked
AfterOutput(k) ==
    calls[k].step > 0 =>
        \E n \in DOMAIN calls :
            /\ calls[n].step = calls[k].step - 1
            /\ ~calls[n].throws
            /\ ~Abandoned(n)
            /\ calls[n].end <= calls[k].start

\* C16 as amended: the function of step i + 1 is invoked only after step i
\* has produced its output, and two invocations of different steps are
\* running at the same time only when one of them is an invocation that a
\* timeout has abandoned.
C16_SequentialButForAbandoned ==
    /\ \A k \in DOMAIN calls : AfterOutput(k)
    /\ \A k, n \in DOMAIN calls :
          (calls[k].step # calls[n].step /\ RunningAt(k, now) /\ RunningAt(n, now))
              => (Abandoned(k) \/ Abandoned(n))

\* the first step timed out on its first attempt and succeeded on its
\* second; the second step runs while the abandoned invocation still does
C16_Witness ==
    /\ Len(calls) = 3
    /\ calls[1].step = 0 /\ Abandoned(1) /\ RunningAt(1, now)
    /\ calls[2].step = 0 /\ ~Abandoned(2) /\ ~calls[2].throws
    /\ calls[3].step = 1 /\ RunningAt(3, now)

\* C16: the function of step i + 1 is invoked only after step i has produced
\* its output, and at no instant are invocations of two different steps
\* running at the same time, timeouts and retries included.
C16_StrictlySequential ==
    /\ \A k \in DOMAIN calls : AfterOutput(k)
    /\ \A k, n \in DOMAIN calls :
          calls[k].step # calls[n].step => ~(RunningAt(k, now) /\ RunningAt(n, now))

(***************************************************************************)
(* Cancellation of the backoff sleep, checked under SpecRun.               *)
(***************************************************************************)
\* member j's backoff sleep was cut short by the token
SleepCancelled(j) ==
    /\ j \in DOMAIN execs
    /\ execs[j].pc = "rejected"
    /\ execs[j].lastError.kind = "SleepAborted"

\* C17: a backoff sleep ends at once when the token becomes set during it, or
\* is set already when it begins: it does not run to its full duration, the
\* step fails with 'Sleep aborted', and no further attempt of the step is made.
C17_SleepCancelled ==
    /\ [][\A j \in DOMAIN execs :
            (execs[j].pc = "sleeping" /\ TokenSet') =>
                /\ SleepCancelled(j)'
                /\ now' = now
                /\ calls' = calls]_vars
    /\ [][(TokenSet /\ Len(sleepLog') > Len(sleepLog)) =>
            LET e == sleepLog'[Len(sleepLog')]
            IN  /\ Len(sleepLog') = Len(sleepLog) + 1
                /\ execs'[e.member].pc = "rejected"
                /\ execs'[e.member].lastError.kind = "SleepAborted"
                /\ now' = e.at
                /\ execs'[e.member].lastError.attempt = e.attempt]_vars
    /\ [](\A j \in DOMAIN execs :
            SleepCancelled(j) =>
                /\ \A k \in DOMAIN calls :
                      (calls[k].step = execs[j].step /\ calls[k].member = j)
                          => calls[k].attempt <= execs[j].lastError.attempt
                /\ execs[j].lastError.attempt < execs[j].retries
                /\ SingleOnly => runPc \in {"resume", "thrown"}
                /\ (SingleOnly /\ runPc = "thrown") => runError = execs[j].lastError)

\* a step with retry(1, 100) failed its first attempt, the token was set in
\* the sleep that followed, and the run failed with 'Sleep aborted' long
\* before the 100 ms were over, after one invocation
C17_Witness ==
    /\ runPc = "thrown"
    /\ runError.kind = "SleepAborted"
    /\ Len(calls) = 1
    /\ Len(sleepLog) = 1
    /\ sleepLog[1].delay = 100
    /\ now < sleepLog[1].at + sleepLog[1].delay
    /\ this.steps[1].retries = Some(1)

(***************************************************************************)
(* Failure of a parallel step, checked under SpecGroup.                    *)
(***************************************************************************)
\* the members of the current step whose executor has failed
Failed == {j \in DOMAIN execs : execs[j].pc = "rejected"}

\* C18: a parallel step fails as soon as one member's retries are
\* exhausted, without waiting for the others: run reports that member's
\* failure, starts no later step, and leaves the other members running and
\* retrying; what they do later never changes the outcome of the run.
C18_GroupFailsFast ==
    /\ [][(IsGroup(context.stepIndex) /\ runPc = "awaiting" /\ Failed = {}
              /\ Failed' # {})
            => /\ runPc' = "resume"
               /\ awaited'.st = "rejected"
               /\ \E j \in Failed' : awaited'.reason = execs'[j].lastError
               /\ \A i \in DOMAIN execs : i \notin Failed' => execs'[i] = execs[i]]_vars
    /\ [][(IsGroup(context.stepIndex) /\ awaited.st = "rejected")
            => /\ awaited'.st = awaited.st
               /\ awaited'.reason = awaited.reason
               /\ context'.stepIndex = context.stepIndex
               /\ runPc' \in {"resume", "thrown"}
               /\ runPc = "thrown" => (runPc' = "thrown" /\ runError' = runError)]_vars
    /\ []((IsGroup(context.stepIndex) /\ Failed # {}) =>
             /\ awaited.st = "rejected"
             /\ runPc \in {"resume", "thrown"}
             /\ runPc = "thrown" => runError = awaited.reason
             /\ \A k \in DOMAIN calls : calls[k].step <= context.stepIndex)

\* the first member of a group with retry(1, 1) has failed twice and the run
\* has thrown its failure; the second member, slow on its first attempt and
\* timed out, has been invoked again after that; the step after the group
\* was never started
C18_Witness ==
    /\ runPc = "thrown"
    /\ IsGroup(0)
    /\ Len(this.steps) = 2
    /\ runError.kind = "StepFailure"
    /\ runError.member = 0
    /\ DOMAIN execs = {0, 1}
    /\ execs[1].pc = "awaiting"
    /\ execs[1].attempt = 1
    /\ calls[execs[1].call].start > calls[execs[0].call].end

(***************************************************************************)
(* Termination of the worker pool, checked under SpecLive.                 *)
(***************************************************************************)
\* every index in [0, N) has been claimed
AllClaimed ==
    \A i \in DOMAIN inputs : \E k \in DOMAIN invocations : invocations[k].idx = i

\* the pool has finished its work: every index claimed once and its result
\* stored, every worker ended by reading the cursor at or past N, runMany
\* returned
PoolDone ==
    /\ rmPc = "returned"
    /\ AllClaimed
    /\ ClaimedOnce
    /\ Len(invocations) = ArrLen(inputs)
    /\ \A i \in DOMAIN inputs : results[i] = RunOutput(this.steps, Scalar(inputs[i]))
    /\ rmValue = results
    /\ \A w \in DOMAIN workers :
          workers[w].st = "resolved" /\ workers[w].currentIndex >= ArrLen(inputs)

\* C19: in bounded runMany, when every run invocation completes
\* successfully, eventually every index has been claimed exactly once and
\* its result stored, every worker has ended by reading the cursor at or
\* past N, and runMany has returned; no worker ends while an index is
\* unclaimed.
C19_PoolTerminates ==
    /\ [](failLog = << >> =>
             \A w \in DOMAIN workers :
                 workers[w].st # "awaiting" =>
                     /\ workers[w].st = "resolved"
                     /\ workers[w].currentIndex >= ArrLen(inputs)
                     /\ AllClaimed)
    /\ <>(failLog # << >> \/ PoolDone)

\* a pool of two workers has finished three inputs
C19_Witness ==
    /\ PoolDone
    /\ ArrLen(inputs) = 3
    /\ Concurrency = 2
    /\ failLog = << >>

(***************************************************************************)
(* The worker pool after a failure, checked under Spec.                    *)
(***************************************************************************)
\* this step is the resumption of a worker whose run succeeded
WorkerGoesOn ==
    /\ Bounded
    /\ microtasks # << >>
    /\ Head(microtasks).type = "worker"
    /\ Head(microtasks).ok
    /\ (results' # results \/ workers' # workers)

\* C20: in bounded runMany a worker whose run failed claims no further
\* index; every other worker goes on claiming and running the indices not
\* yet claimed until the cursor is exhausted, also after a failure and
\* after runMany has thrown, so runs are still started then.
C20_PoolGoesOnAfterFailure ==
    /\ [](\A w \in DOMAIN workers :
            workers[w].st = "rejected" =>
                /\ invocations[workers[w].awaiting].st = "err"
                /\ \A k \in DOMAIN invocations :
                      invocations[k].by = w => k <= workers[w].awaiting)
    /\ [][\A w \in DOMAIN workers :
            workers[w].st = "rejected" => workers'[w] = workers[w]]_vars
    /\ [][(WorkerGoesOn /\ index < ArrLen(inputs)) =>
            /\ index' = index + 1
            /\ invocations' = Append(invocations,
                                  [idx |-> index, st |-> "inflight",
                                   by |-> Head(microtasks).k,
                                   late |-> rmPc = "thrown"])]_vars
    /\ [][(WorkerGoesOn /\ index >= ArrLen(inputs)) =>
            /\ invocations' = invocations
            /\ workers'[Head(microtasks).k].st = "resolved"]_vars

\* runMany on three inputs with two workers has thrown the failure of the
\* first run; the other worker has since claimed the third input, and its
\* run, started after the throw, has completed
C20_Witness ==
    /\ rmPc = "thrown"
    /\ ArrLen(inputs) = 3
    /\ Concurrency = 2
    /\ workers[0].st = "rejected"
    /\ Len(invocations) = 3
    /\ invocations[3].late
    /\ invocations[3].by = 1
    /\ invocations[3].st = "ok"

====
